---- MODULE Spec2Model ----
(***************************************************************************)
(* Model of handtrackingmodule.py: the HandDetector class (findHands,      *)
(* findPosition) and the capture loop in main().                           *)
(*                                                                         *)
(* The MediaPipe model and the OpenCV capture/display calls are external;  *)
(* their outputs are inputs of the model, drawn from small sets.           *)
(***************************************************************************)
EXTENDS Integers, Sequences, FiniteSets, TLC

VARIABLES
    results,      \* self.results of the detector
    img,          \* the frame the last call worked on (mutated in place)
    lmList,       \* the list returned by the last findPosition call
    fault,        \* the exception raised by the last call, "none" if it returned
    call,         \* the last detector call and its arguments
    history,      \* model outputs of the last two findHands calls
    pc,           \* position of main(); "api" when the detector is driven directly
    success,      \* success flag of the last cap.read()
    pTime, cTime, \* timestamps of main(), in ticks
    fps,          \* fps of main(), a rational <<numerator, denominator>>
    key,          \* value returned by the last cv.waitKey(1)
    capOpen,      \* the camera handle is held
    windowsOpen,  \* a display window exists
    window,       \* the frame last given to cv.imshow
    printed,      \* the last console output
    steps,        \* steps performed so far in the current loop iteration
    reads, processed, displayed   \* saturating call counters of main()

vars == <<results, img, lmList, fault, call, history, pc, success, pTime, cTime,
          fps, key, capOpen, windowsOpen, window, printed, steps,
          reads, processed, displayed>>

detVars == <<results, img, lmList, fault, call, history>>
mainVars == <<pc, success, pTime, cTime, fps, key, capOpen, windowsOpen, window,
              printed, steps, reads, processed, displayed>>

----------------------------------------------------------------------------
(* Bounds of the model *)

\* normalized coordinates are multiples of 1 / 2^DenBits (exact as floats)
DenBits == 3
\* landmarks per hand (21 in the MediaPipe hand model)
NumLandmarks == 2
\* the call counters of main() saturate here
MaxCount == 3

(* Program constants *)

\* max_hands=2
MaxHands == 2
\* the Escape key code tested after cv.waitKey
ESC == 27
\* the mask 0xFF applied to the key code, as a modulus
ByteMod == 256
\* time.time() is in seconds; the model counts ticks of 1 ms
TicksPerSec == 1000

Den == 2 ^ DenBits
Half == Den \div 2

Min(a, b) == IF a < b THEN a ELSE b
Abs(n) == IF n < 0 THEN -n ELSE n
Bump(n) == Min(n + 1, MaxCount)

----------------------------------------------------------------------------
(* Frames and the landmark model *)

\* normalized landmarks <<x * Den, y * Den>>; some lie outside [0,1]
LmPool == << <<Half, Half>>, <<Half - 1, Den + 1>>, <<-1, Half - 1>>, <<Den, 0>> >>

\* the hands the landmark model can report
HandKind(k) == [i \in 1..NumLandmarks |-> LmPool[((k + i - 2) % Len(LmPool)) + 1]]
HandPool == {HandKind(k) : k \in 1..2}

SeqsUpTo(S, n) == UNION {[1..m -> S] : m \in 0..n}

\* what a frame shows: the hands MediaPipe finds in it, at most max_hands
Scenes == SeqsUpTo(HandPool, MaxHands)

FrameSizes == {<<640, 480>>, <<5, 3>>}

NoText == -1

\* a frame as cap.read() delivers it: no overlay yet
CleanFrame(size, scene) ==
    [w |-> size[1], h |-> size[2], scene |-> scene,
     skeleton |-> {}, circles |-> {}, text |-> NoText]

Frames == {CleanFrame(s, sc) : s \in FrameSizes, sc \in Scenes}

BlankFrame == [w |-> 0, h |-> 0, scene |-> <<>>,
               skeleton |-> {}, circles |-> {}, text |-> NoText]

\* self.hands.process(imgRGB).multi_hand_landmarks; None is the empty sequence
Process(im) == im.scene

----------------------------------------------------------------------------
(* HandDetector *)

\* self.results = None
NoResult == [none |-> TRUE, multi_hand_landmarks |-> <<>>]

IntFloor(p, d) == p \div d

\* int(p / d) for a float: truncation toward zero
Trunc(p, d) == IF p >= 0 THEN p \div d ELSE -((-p) \div d)

\* cx, cy = int(lm.x * w), int(lm.y * h)
Pixel(lm, im) == <<Trunc(lm[1] * im.w, Den), Trunc(lm[2] * im.h, Den)>>

\* list indexing: negative indices count from the end, others raise IndexError
IndexOk(n, i) == -n <= i /\ i < n
PyIndex(n, i) == IF i < 0 THEN i + n + 1 ELSE i + 1

\* if self.results.multi_hand_landmarks: (in findHands)
HandsFound(res) == Len(res.multi_hand_landmarks) > 0

HasHandsResultOnly(res) == ~res.none

\* if self.results and self.results.multi_hand_landmarks: (in findPosition)
HasHands(res) == ~res.none /\ Len(res.multi_hand_landmarks) > 0

\* findHands(img, draw): the stored result and the returned frame
FindHandsResult(im, draw) ==
    LET res == [none |-> FALSE, multi_hand_landmarks |-> Process(im)]
        hs == res.multi_hand_landmarks
    IN [results |-> res,
        img |-> IF HandsFound(res) /\ draw
                THEN [im EXCEPT !.skeleton = @ \cup {hs[i] : i \in 1..Len(hs)}]
                ELSE im]

\* the body of the if in findPosition: select the hand, convert its landmarks
LandmarkList(res, im, hand_no, draw) ==
    LET hs == res.multi_hand_landmarks
    IN IF IndexOk(Len(hs), hand_no)
       THEN LET myHand == hs[PyIndex(Len(hs), hand_no)]
                px(i) == Pixel(myHand[i], im)
            IN [lmList |-> [i \in 1..Len(myHand) |-> <<i - 1, px(i)[1], px(i)[2]>>],
                img |-> IF draw
                        THEN [im EXCEPT !.circles =
                                 @ \cup {px(i) : i \in 1..Len(myHand)}]
                        ELSE im,
                fault |-> "none"]
       ELSE [lmList |-> <<>>, img |-> im, fault |-> "IndexError"]

FindPositionNoneUnchecked(res, im, hand_no, draw) ==
    IF res.none
    THEN [lmList |-> <<>>, img |-> im, fault |-> "AttributeError"]
    ELSE IF Len(res.multi_hand_landmarks) > 0
         THEN LandmarkList(res, im, hand_no, draw)
         ELSE [lmList |-> <<>>, img |-> im, fault |-> "none"]

\* findPosition(img, hand_no, draw): the returned list, the frame, the fault
FindPositionResult(res, im, hand_no, draw) ==
    IF HasHands(res)
    THEN LandmarkList(res, im, hand_no, draw)
    ELSE [lmList |-> <<>>, img |-> im, fault |-> "none"]

HandNos == -1 .. MaxHands

NoCall == [op |-> "none", hand_no |-> 0, draw |-> FALSE, img |-> BlankFrame]

NoHistory == [called |-> FALSE, last |-> <<>>, prev |-> <<>>]

Record(h, out) == [called |-> TRUE, last |-> out, prev |-> h.last]

\* state changes of one findHands call
DoFindHands(im, draw) ==
    LET r == FindHandsResult(im, draw)
    IN /\ results' = r.results
       /\ img' = r.img
       /\ fault' = "none"
       /\ call' = [op |-> "findHands", hand_no |-> 0, draw |-> draw, img |-> im]
       /\ history' = Record(history, Process(im))
       /\ UNCHANGED lmList

DoFindPositionConsume(im, hand_no, draw) ==
    LET r == FindPositionResult(results, im, hand_no, draw)
    IN /\ lmList' = r.lmList
       /\ img' = r.img
       /\ fault' = r.fault
       /\ call' = [op |-> "findPosition", hand_no |-> hand_no, draw |-> draw, img |-> im]
       /\ results' = NoResult
       /\ UNCHANGED history

\* state changes of one findPosition call
DoFindPosition(im, hand_no, draw) ==
    LET r == FindPositionResult(results, im, hand_no, draw)
    IN /\ lmList' = r.lmList
       /\ img' = r.img
       /\ fault' = r.fault
       /\ call' = [op |-> "findPosition", hand_no |-> hand_no, draw |-> draw, img |-> im]
       /\ UNCHANGED <<results, history>>

----------------------------------------------------------------------------
(* The detector driven directly: any sequence of calls on one instance *)

InitDetector ==
    /\ results = NoResult
    /\ img = BlankFrame
    /\ lmList = <<>>
    /\ fault = "none"
    /\ call = NoCall
    /\ history = NoHistory

InitMainVars ==
    /\ success = "unset"
    /\ pTime = 0
    /\ cTime = 0
    /\ fps = <<0, 1>>
    /\ key = -1
    /\ capOpen = TRUE
    /\ windowsOpen = FALSE
    /\ window = BlankFrame
    /\ printed = "none"
    /\ steps = <<>>
    /\ reads = 0
    /\ processed = 0
    /\ displayed = 0

InitAPI == InitDetector /\ InitMainVars /\ pc = "api"

\* the caller passes a fresh frame or the frame of the previous call
ArgFrames == Frames \cup (IF call.op = "none" THEN {} ELSE {img})

FindHands ==
    /\ pc = "api"
    /\ \E im \in ArgFrames, draw \in BOOLEAN : DoFindHands(im, draw)
    /\ UNCHANGED mainVars

FindPosition ==
    /\ pc = "api"
    /\ \E im \in ArgFrames, hand_no \in HandNos, draw \in BOOLEAN :
          DoFindPosition(im, hand_no, draw)
    /\ UNCHANGED mainVars

NextAPI == FindHands \/ FindPosition

SpecAPI == InitAPI /\ [][NextAPI]_vars

----------------------------------------------------------------------------
(* main(): the capture loop, one action per statement of the loop body *)

\* values time.time() can return, in ticks; the clock may tie or step back
Times == {10000, 10040, 10050}

\* cv.waitKey(1): -1 when no key was pressed, else the key's code, to which
\* some HighGUI backends add modifier flags above the low 16 bits
KeyChars == {ESC, 113}
ModFlags == {0, 16 * 65536}
KeyCodes == {-1} \cup {c + m : c \in KeyChars, m \in ModFlags}

\* the key a poll result stands for, 0 for none
KeyOf(code) == IF code < 0 THEN 0 ELSE code % 65536

\* code & 0xFF on a two's complement integer
LowByte(code) == code % ByteMod

IsEscNoMask(code) == code = ESC

\* cv.waitKey(1) & 0xFF == 27
IsEsc(code) == LowByte(code) = ESC

FpsOfNonNegative(now, prev) ==
    IF now - prev >= 0 THEN <<TicksPerSec, now - prev>> ELSE <<0, 1>>

\* 1 / (cTime - pTime) if (cTime - pTime) > 0 else 0, as a rational
FpsOf(now, prev) ==
    IF now - prev > 0 THEN <<TicksPerSec, now - prev>> ELSE <<0, 1>>

\* the order of the statements of the loop body
Order == <<"acquire", "detect", "query", "fps", "render", "display", "poll">>

LoopPcs == {"read", "detect", "query", "fps", "render", "show", "poll"}

InitMain == InitDetector /\ InitMainVars /\ pc = "read"

ReadFrameRetry ==
    /\ pc = "read"
    /\ reads' = Bump(reads)
    /\ \E ok \in BOOLEAN, f \in Frames :
          IF ok
          THEN /\ success' = "ok"
               /\ img' = f
               /\ steps' = <<"acquire">>
               /\ pc' = "detect"
               /\ UNCHANGED printed
          ELSE /\ success' = "fail"
               /\ printed' = "Failed to read from webcam."
               /\ steps' = <<>>
               /\ pc' = "read"
               /\ UNCHANGED img
    /\ UNCHANGED <<results, lmList, fault, call, history, pTime, cTime, fps, key,
                   capOpen, windowsOpen, window, processed, displayed>>

\* success, img = cap.read(); if not success: print(...); break
ReadFrame ==
    /\ pc = "read"
    /\ reads' = Bump(reads)
    /\ \E ok \in BOOLEAN, f \in Frames :
          IF ok
          THEN /\ success' = "ok"
               /\ img' = f
               /\ steps' = <<"acquire">>
               /\ pc' = "detect"
               /\ UNCHANGED printed
          ELSE /\ success' = "fail"
               /\ printed' = "Failed to read from webcam."
               /\ steps' = <<>>
               /\ pc' = "release"
               /\ UNCHANGED img
    /\ UNCHANGED <<results, lmList, fault, call, history, pTime, cTime, fps, key,
                   capOpen, windowsOpen, window, processed, displayed>>

\* img = detector.findHands(img)
Detect ==
    /\ pc = "detect"
    /\ DoFindHands(img, TRUE)
    /\ processed' = Bump(processed)
    /\ steps' = Append(steps, "detect")
    /\ pc' = "query"
    /\ UNCHANGED <<success, pTime, cTime, fps, key, capOpen, windowsOpen, window,
                   printed, reads, displayed>>

\* lmList = detector.findPosition(img, draw=True); if lmList: print(lmList)
Query ==
    /\ pc = "query"
    /\ DoFindPosition(img, 0, TRUE)
    /\ printed' = IF lmList' # <<>> THEN "lmList" ELSE printed
    /\ steps' = Append(steps, "query")
    /\ pc' = IF fault' = "none" THEN "fps" ELSE "raised"
    /\ UNCHANGED <<success, pTime, cTime, fps, key, capOpen, windowsOpen, window,
                   reads, processed, displayed>>

\* cTime = time.time(); fps = ...; pTime = cTime
ComputeFps ==
    /\ pc = "fps"
    /\ \E now \in Times :
          /\ cTime' = now
          /\ fps' = FpsOf(now, pTime)
          /\ pTime' = now
    /\ steps' = Append(steps, "fps")
    /\ pc' = "render"
    /\ UNCHANGED <<detVars, success, key, capOpen, windowsOpen, window, printed,
                   reads, processed, displayed>>

\* cv.putText(img, f'FPS: {int(fps)}', ...)
Render ==
    /\ pc = "render"
    /\ img' = [img EXCEPT !.text = Trunc(fps[1], fps[2])]
    /\ steps' = Append(steps, "render")
    /\ pc' = "show"
    /\ UNCHANGED <<results, lmList, fault, call, history, success, pTime, cTime, fps,
                   key, capOpen, windowsOpen, window, printed, reads, processed,
                   displayed>>

ShowFrameIfHand ==
    /\ pc = "show"
    /\ IF lmList # <<>>
       THEN /\ window' = img
            /\ windowsOpen' = TRUE
            /\ displayed' = Bump(displayed)
            /\ steps' = Append(steps, "display")
       ELSE UNCHANGED <<window, windowsOpen, displayed, steps>>
    /\ pc' = "poll"
    /\ UNCHANGED <<detVars, success, pTime, cTime, fps, key, capOpen, printed,
                   reads, processed>>

\* cv.imshow("Hand Tracking", img)
ShowFrame ==
    /\ pc = "show"
    /\ window' = img
    /\ windowsOpen' = TRUE
    /\ displayed' = Bump(displayed)
    /\ steps' = Append(steps, "display")
    /\ pc' = "poll"
    /\ UNCHANGED <<detVars, success, pTime, cTime, fps, key, capOpen, printed,
                   reads, processed>>

\* if cv.waitKey(1) & 0xFF == 27: break
PollKey ==
    /\ pc = "poll"
    /\ \E code \in KeyCodes :
          /\ key' = code
          /\ pc' = IF IsEsc(code) THEN "release" ELSE "read"
    /\ steps' = Append(steps, "poll")
    /\ UNCHANGED <<detVars, success, pTime, cTime, fps, capOpen, windowsOpen, window,
                   printed, reads, processed, displayed>>

\* cap.release()
Release ==
    /\ pc = "release"
    /\ capOpen' = FALSE
    /\ pc' = "destroy"
    /\ UNCHANGED <<detVars, success, pTime, cTime, fps, key, windowsOpen, window,
                   printed, steps, reads, processed, displayed>>

\* cv.destroyAllWindows()
DestroyAllWindows ==
    /\ pc = "destroy"
    /\ windowsOpen' = FALSE
    /\ pc' = "done"
    /\ UNCHANGED <<detVars, success, pTime, cTime, fps, key, capOpen, window,
                   printed, steps, reads, processed, displayed>>

\* a call of the loop body raises (cv2.error from the capture or display
\* backend, KeyboardInterrupt): nothing in main() catches it, main() ends there
Raise ==
    /\ pc \in LoopPcs
    /\ fault' = "exception"
    /\ pc' = "raised"
    /\ UNCHANGED <<results, img, lmList, call, history, success, pTime, cTime, fps,
                   key, capOpen, windowsOpen, window, printed, steps, reads,
                   processed, displayed>>

Next ==
    \/ ReadFrame
    \/ Detect
    \/ Query
    \/ ComputeFps
    \/ Render
    \/ ShowFrame
    \/ PollKey
    \/ Release
    \/ DestroyAllWindows

\* every call of the loop body returns
Spec == InitMain /\ [][Next]_vars

\* the interpreter keeps executing main() until it ends
FairSpec == Spec /\ WF_vars(Next)

NextFault == Next \/ Raise

\* calls of the loop body may raise
SpecFault == InitMain /\ [][NextFault]_vars

----------------------------------------------------------------------------
(* Properties *)

\* the hand a findPosition call selected in the stored result
SelectedHand ==
    results.multi_hand_landmarks[PyIndex(Len(results.multi_hand_landmarks), call.hand_no)]

\* findPosition returned a non-empty list
Converted == call.op = "findPosition" /\ fault = "none" /\ lmList # <<>>

\* round(p / d): to the nearest integer, ties to the even one
Round(p, d) ==
    LET q == p \div d
        r == p - q * d
    IN IF 2 * r < d THEN q
       ELSE IF 2 * r > d THEN q + 1
       ELSE IF q % 2 = 0 THEN q ELSE q + 1

\* c is p / d with the fraction dropped: |c| <= |p / d| < |c| + 1, same sign
IsTruncation(c, p, d) ==
    /\ d * Abs(c) <= Abs(p)
    /\ Abs(p) < d * (Abs(c) + 1)
    /\ c * p >= 0

\* C1: findPosition with hand_no >= the number of hands of the last detection
\* result returns an empty list and raises nothing.
C1_OutOfRangeIsEmpty ==
    (call.op = "findPosition" /\ call.hand_no >= Len(results.multi_hand_landmarks))
        => (lmList = <<>> /\ fault = "none")

\* C2 as stated: every returned entry [id, cx, cy] has cx = round(x * w) and
\* cy = round(y * h).
C2_PixelsRounded ==
    Converted =>
        \A i \in 1..Len(lmList) :
            lmList[i] = <<i - 1, Round(SelectedHand[i][1] * call.img.w, Den),
                          Round(SelectedHand[i][2] * call.img.h, Den)>>

\* C2 amended: every returned entry [id, cx, cy] has cx = x * w and cy = y * h
\* truncated toward zero, with no clamping to the frame; landmark 0 at
\* (0.5, 0.5) on a 640x480 frame yields (0, 320, 240).
C2_PixelsTruncated ==
    Converted =>
        /\ Len(lmList) = Len(SelectedHand)
        /\ \A i \in 1..Len(lmList) :
              /\ lmList[i][1] = i - 1
              /\ IsTruncation(lmList[i][2], SelectedHand[i][1] * call.img.w, Den)
              /\ IsTruncation(lmList[i][3], SelectedHand[i][2] * call.img.h, Den)
        /\ (/\ SelectedHand[1] = <<Half, Half>>
            /\ call.img.w = 640
            /\ call.img.h = 480) => lmList[1] = <<0, 320, 240>>

C2_Witness ==
    /\ Converted
    /\ lmList[1] = <<0, 320, 240>>
    /\ \E i \in 1..Len(lmList) : lmList[i][3] > call.img.h

\* C3: whenever main() has ended, by whatever exit from the loop, the camera
\* has been released and the windows have been closed.
C3_ReleasedOnEveryExit ==
    pc \in {"done", "raised"} => (~capOpen /\ ~windowsOpen)

\* C4: a failed read ends the loop in that iteration: no retry, no detection,
\* landmark query, FPS computation, rendering or display for it; a failure on
\* the first read leaves zero frames processed and camera and windows released.
C4_ReadFailureEndsLoop ==
    /\ [](success = "fail" => (pc \in {"release", "destroy", "done"} /\ steps = <<>>))
    /\ []((pc = "done" /\ success = "fail" /\ reads = 1)
            => (/\ processed = 0
                /\ displayed = 0
                /\ window = BlankFrame
                /\ ~capOpen
                /\ ~windowsOpen))
    /\ [][success' = "fail"
            => (/\ UNCHANGED <<results, img, lmList, pTime, cTime, fps, key, window,
                               processed, displayed>>
                /\ (success = "fail" => reads' = reads))]_vars

C4_Witness == pc = "done" /\ success = "fail" /\ reads = 1 /\ processed = 0

\* C5: the loop is left exactly when the poll returns Escape or a read fails:
\* a poll that returns Escape ends the loop, any other poll result leads to
\* the next read, and once Escape or a failed read has occurred main() ends.
C5_LoopUntilEscapeOrFailure ==
    /\ [][(pc = "poll" /\ pc' # "poll")
            => IF KeyOf(key') = ESC THEN pc' = "release" ELSE pc' = "read"]_vars
    /\ [][(pc \in LoopPcs /\ pc' \notin LoopPcs)
            => \/ (pc = "read" /\ success' = "fail")
               \/ (pc = "poll" /\ KeyOf(key') = ESC)]_vars
    /\ ((success = "fail" \/ KeyOf(key) = ESC) ~> (pc = "done"))

C5_Witness ==
    /\ pc = "done"
    /\ key = ESC + 16 * 65536
    /\ reads >= 2
    /\ success = "ok"

\* C6: each iteration sets fps to 1 / (cTime - pTime) when the difference is
\* strictly positive and to 0 otherwise, then pTime to cTime; 10.000 then
\* 10.050 gives 20, equal timestamps give 0, and no denominator is ever zero.
C6_FpsReciprocal ==
    /\ [](fps[2] # 0)
    /\ [][(pc = "fps" /\ pc' # "fps")
            => LET d == cTime' - pTime
               IN /\ (d > 0 => fps'[1] * d = TicksPerSec * fps'[2])
                  /\ (d <= 0 => fps'[1] = 0)
                  /\ pTime' = cTime'
                  /\ ((pTime = 10000 /\ cTime' = 10050) => fps'[1] = 20 * fps'[2])
                  /\ (pTime = cTime' => fps'[1] = 0)]_vars

C6_Witness ==
    /\ pc = "render"
    /\ reads >= 2
    /\ cTime = 10050
    /\ fps[1] = 20 * fps[2]

\* C7: on a detector whose findHands was never called, findPosition returns
\* an empty list, raises nothing and leaves the frame as it was.
C7_NoResultIsEmpty ==
    (call.op = "findPosition" /\ results.none)
        => (lmList = <<>> /\ fault = "none" /\ img = call.img)

C7_Witness ==
    /\ call.op = "findPosition"
    /\ results.none
    /\ call.draw
    /\ call.hand_no = 1
    /\ Len(call.img.scene) = 2

\* C8: on a frame with zero hands findHands returns the frame as it was given
\* and raises nothing, and a following findPosition returns an empty list.
C8_EmptyDetection ==
    /\ (call.op = "findHands" /\ Process(call.img) = <<>>)
          => (/\ img = call.img
              /\ fault = "none"
              /\ results = [none |-> FALSE, multi_hand_landmarks |-> <<>>])
    /\ (call.op = "findPosition" /\ ~results.none /\ results.multi_hand_landmarks = <<>>)
          => (lmList = <<>> /\ fault = "none" /\ img = call.img)

C8_Witness ==
    /\ call.op = "findPosition"
    /\ ~results.none
    /\ results.multi_hand_landmarks = <<>>
    /\ call.hand_no = 1
    /\ call.draw

\* C9: the stored result is the model's output for the frame of the most
\* recent findHands call, findPosition leaves it alone, and after the first
\* findHands call it is never None again.
C9_LastResultOnly ==
    /\ [](/\ results.none = ~history.called
          /\ results.multi_hand_landmarks = history.last
          /\ (call.op = "findHands"
                => results.multi_hand_landmarks = Process(call.img)))
    /\ [][~results.none => ~results'.none]_vars
    /\ [][history' = history => results' = results]_vars

C9_Witness ==
    /\ call.op = "findPosition"
    /\ ~results.none
    /\ results.multi_hand_landmarks = <<>>
    /\ Len(history.prev) > 0

\* position of each statement of the loop body in Order
StepsBefore(p) ==
    CASE p = "detect" -> 1
      [] p = "query" -> 2
      [] p = "fps" -> 3
      [] p = "render" -> 4
      [] p = "show" -> 5
      [] p = "poll" -> 6

\* C10: an iteration that acquired a frame performs acquire, detect, query,
\* fps, render, display, poll in this order, each once, the next iteration
\* starts only after the poll, and every acquired frame is displayed once.
C10_IterationOrder ==
    /\ Len(steps) <= Len(Order)
    /\ steps = SubSeq(Order, 1, Len(steps))
    /\ (pc \in LoopPcs \ {"read"}) => Len(steps) = StepsBefore(pc)
    /\ (pc = "read") => steps \in {<<>>, Order}
    /\ (pc \in {"release", "destroy", "done"} /\ success = "ok") => steps = Order
    /\ (steps = Order) => window = img
    /\ (pc \in {"read", "release", "destroy", "done"}) => displayed = processed

C10_Witness ==
    /\ pc = "done"
    /\ KeyOf(key) = ESC
    /\ steps = Order
    /\ reads = 1
    /\ displayed = 1

====
